---- MODULE Spec2Model ----
(***************************************************************************)
(* Model of the runner abstraction (models.py), its two decorators         *)
(* (decorators.py) and the presentation shell's load / run / meta handlers *)
(* (gui.py).                                                               *)
(*                                                                         *)
(* load() runs on the UI thread; every run() runs on a thread of its own   *)
(* (a click of a Run button, or a direct caller of the runner API).  Each  *)
(* call is a sequence of steps, one per access to the runner's shared      *)
(* attributes (_initialized, _pipe, last_runtime_s) or to the wall clock.  *)
(* The external pipeline provider is opaque: construction and inference    *)
(* succeed or fail nondeterministically.                                    *)
(*                                                                         *)
(* Spec        one caller at a time, any input and option: the runner's    *)
(*             contract.                                                   *)
(* SpecThreads the presentation shell with its threads interleaved: load() *)
(*             on the UI thread, a run() thread per click.                 *)
(***************************************************************************)
EXTENDS Integers, FiniteSets, Sequences, TLC

\* ---------------------------------------------------------------- bounds
MaxTime    == 2   \* the wall clock runs 0..MaxTime
MaxLoads   == 2   \* pipelines constructed per runner
MaxThreads == 2   \* run() calls in flight at once
MaxLabels  == 3   \* size of the largest label set of a model
ThreadsMaxTime == 1  \* the wall clock's range where run() threads interleave

\* ------------------------------------------------------ program constants
DefaultTopK == 5  \* kwargs.get("top_k", 5)

Runners == {"text", "image"}
Threads == 1..MaxThreads

\* The two factories' field values.
make_text_sentiment_runner ==
    [model_id          |-> "distilbert-base-uncased-finetuned-sst-2-english",
     task              |-> "sentiment-analysis",
     category          |-> "Text",
     short_description |-> "Binary sentiment (POSITIVE/NEGATIVE) for short English text."]

make_image_classifier_runner ==
    [model_id          |-> "google/vit-base-patch16-224",
     task              |-> "image-classification",
     category          |-> "Vision",
     short_description |-> "ImageNet-style image classification using ViT base."]

\* ------------------------------------------------------------ run() inputs
\* A user_input value: its Python type, its length when it is a string, and
\* whether Image.open() succeeds on it when it is used as a path.
TextIn  == [type |-> "str",   len |-> 12, openable |-> FALSE]  \* "I love this!"
EmptyIn == [type |-> "str",   len |-> 0,  openable |-> FALSE]  \* ""
PathIn  == [type |-> "str",   len |-> 7,  openable |-> TRUE]   \* "cat.png"
ImageIn == [type |-> "Image", len |-> 0,  openable |-> FALSE]  \* a PIL image
IntIn   == [type |-> "int",   len |-> 0,  openable |-> FALSE]  \* 42
NoInput == [type |-> "none",  len |-> 0,  openable |-> FALSE]
Inputs  == {TextIn, EmptyIn, PathIn, ImageIn, IntIn}

\* The top_k keyword option as the caller gives it: absent, an integer, a
\* numeric string ("3") or a string int() rejects ("many").
Absent    == [kind |-> "absent", val |-> 0]
TopKInt(n) == [kind |-> "int", val |-> n]
TopKStr3  == [kind |-> "numstr", val |-> 3]
TopKBad   == [kind |-> "badstr", val |-> 0]
Options   == {Absent, TopKInt(1), TopKInt(3), TopKStr3, TopKBad}

VARIABLES
    fields,          \* runner -> model_id, task, category, short_description
    initialized,     \* runner -> _initialized
    pipe,            \* runner -> _pipe: 0 is None, n > 0 the n-th pipeline built
    last_runtime_s,  \* runner -> last_runtime_s
    loaded_ok,       \* history: runner -> some load() body ran to its end
    now,             \* time.time()
    ui,              \* the UI thread: idle, or its place inside load()
    th,              \* thread slot -> the run() call it executes
    model_select,    \* index of the model combobox
    info             \* the info panel: the last meta() shown

vars == <<fields, initialized, pipe, last_runtime_s, loaded_ok, now, ui, th,
          model_select, info>>

runnerState == <<initialized, pipe, last_runtime_s>>

\* ---------------------------------------------------------- decorators.py
\* A timer that subtracts the wrong way round.
ElapsedSwapped(start, end) == start - end

\* timeit: time.time() - start
Elapsed(start, end) == end - start

\* A guard that lets every call through.
GuardNeverRejects(r) == FALSE

\* ensure_initialized: not getattr(self, "_initialized", False)
GuardRejects(r) == ~initialized[r]

\* ------------------------------------------------------------- models.py
\* TextModelRunner.describe / ImageModelRunner.describe (overrides)
Describe(r) ==
    IF r = "text"
    THEN <<"TextModelRunner overrides describe()", fields[r].model_id, fields[r].task>>
    ELSE <<"ImageModelRunner overrides describe()", fields[r].model_id, fields[r].task>>

\* A meta() that has a name to show only once the model is loaded.
MetaWhenLoaded(r) ==
    [name              |-> IF initialized[r] THEN fields[r].model_id ELSE "",
     category          |-> fields[r].category,
     short_description |-> IF fields[r].short_description # ""
                           THEN <<fields[r].short_description>>
                           ELSE Describe(r)]

\* BaseModelRunner.meta
Meta(r) ==
    [name              |-> fields[r].model_id,
     category          |-> fields[r].category,
     short_description |-> IF fields[r].short_description # ""
                           THEN <<fields[r].short_description>>
                           ELSE Describe(r)]

IdleUI == [pc |-> "idle", which |-> "none", start |-> 0, exc |-> "none",
           pre_init |-> FALSE, pre_pipe |-> 0]

IdleThread ==
    [pc |-> "idle", origin |-> "none", runner |-> "none", input |-> NoInput,
     opt |-> Absent, start |-> 0, top_k |-> 0, calls |-> 0, pipe_ref |-> 0,
     out |-> "none", nres |-> 0, runtime_s |-> 0, exc |-> "none",
     measured |-> -1]

\* AppGUI.__init__: the runner each factory returns.
Factory(r) ==
    IF r = "text" THEN make_text_sentiment_runner ELSE make_image_classifier_runner

SelectedRunner(idx) == IF idx = 0 THEN "text" ELSE "image"

Init ==
    /\ fields = [r \in Runners |-> Factory(r)]
    /\ initialized = [r \in Runners |-> FALSE]
    /\ pipe = [r \in Runners |-> 0]
    /\ last_runtime_s = [r \in Runners |-> 0]
    /\ loaded_ok = [r \in Runners |-> FALSE]
    /\ now = 0
    /\ ui = IdleUI
    /\ th = [t \in Threads |-> IdleThread]
    /\ model_select = 0
    /\ info = Meta(SelectedRunner(0))

\* The wall clock advances (time.time() is taken not to step backwards).
Tick ==
    /\ now < MaxTime
    /\ now' = now + 1
    /\ UNCHANGED <<fields, initialized, pipe, last_runtime_s, loaded_ok, ui, th,
                   model_select, info>>

\* ------------------------------------------------------- load(), UI thread
\* A load() that sets the flag before it builds the pipeline.
LoadRunnerSetsFlagFirst(r) ==
    /\ ui.pc = "idle"
    /\ pipe[r] < MaxLoads
    /\ initialized' = [initialized EXCEPT ![r] = TRUE]
    /\ ui' = [pc |-> "load_construct", which |-> r, start |-> now, exc |-> "none",
              pre_init |-> initialized[r], pre_pipe |-> pipe[r]]
    /\ UNCHANGED <<fields, pipe, last_runtime_s, loaded_ok, now, th,
                   model_select, info>>

\* AppGUI._load_runner / _load_selected_model -> runner.load(): the timeit
\* wrapper takes the start time.  The UI thread serves one event at a time.
LoadRunner(r) ==
    /\ ui.pc = "idle"
    /\ pipe[r] < MaxLoads
    /\ ui' = [pc |-> "load_construct", which |-> r, start |-> now, exc |-> "none",
              pre_init |-> initialized[r], pre_pipe |-> pipe[r]]
    /\ UNCHANGED <<fields, initialized, pipe, last_runtime_s, loaded_ok, now, th,
                   model_select, info>>

\* A load() that resets the runner when the provider fails.
LoadConstructResetsOnFailure ==
    /\ ui.pc = "load_construct"
    /\ \/ /\ pipe' = [pipe EXCEPT ![ui.which] = pipe[ui.which] + 1]
          /\ initialized' = initialized
          /\ ui' = [ui EXCEPT !.pc = "load_flag"]
       \/ /\ pipe' = pipe
          /\ initialized' = [initialized EXCEPT ![ui.which] = FALSE]
          /\ ui' = [ui EXCEPT !.pc = "load_finally", !.exc = "PipelineError"]
    /\ UNCHANGED <<fields, last_runtime_s, loaded_ok, now, th, model_select, info>>

\* self._pipe = pipeline(task=..., model=...): the provider builds a new
\* pipeline, which is assigned, or raises, and nothing is assigned.
LoadConstruct ==
    /\ ui.pc = "load_construct"
    /\ \/ /\ pipe' = [pipe EXCEPT ![ui.which] = pipe[ui.which] + 1]
          /\ ui' = [ui EXCEPT !.pc = "load_flag"]
       \/ /\ pipe' = pipe
          /\ ui' = [ui EXCEPT !.pc = "load_finally", !.exc = "PipelineError"]
    /\ UNCHANGED <<fields, initialized, last_runtime_s, loaded_ok, now, th,
                   model_select, info>>

\* self._initialized = True: the last statement of load()'s body.
LoadSetFlag ==
    /\ ui.pc = "load_flag"
    /\ initialized' = [initialized EXCEPT ![ui.which] = TRUE]
    /\ loaded_ok' = [loaded_ok EXCEPT ![ui.which] = TRUE]
    /\ ui' = [ui EXCEPT !.pc = "load_finally"]
    /\ UNCHANGED <<fields, pipe, last_runtime_s, now, th, model_select, info>>

\* timeit's finally around load(): self.last_runtime_s = time.time() - start,
\* then the return or the pending exception reaches _load_runner.
LoadFinally ==
    /\ ui.pc = "load_finally"
    /\ last_runtime_s' = [last_runtime_s EXCEPT ![ui.which] = Elapsed(ui.start, now)]
    /\ ui' = [ui EXCEPT !.pc = "load_done"]
    /\ UNCHANGED <<fields, initialized, pipe, loaded_ok, now, th, model_select, info>>

\* _load_runner shows "Model loaded successfully." or the error; the handler ends.
LoadReturn ==
    /\ ui.pc = "load_done"
    /\ ui' = IdleUI
    /\ UNCHANGED <<fields, initialized, pipe, last_runtime_s, loaded_ok, now, th,
                   model_select, info>>

\* <<ComboboxSelected>> -> _update_selected_model_info: runner.meta() is shown.
UpdateSelectedModelInfo(idx) ==
    /\ ui.pc = "idle"
    /\ model_select' = idx
    /\ info' = Meta(SelectedRunner(idx))
    /\ UNCHANGED <<fields, initialized, pipe, last_runtime_s, loaded_ok, now, ui, th>>

\* ------------------------------------------------------ run(), per thread
\* TextModelRunner.run up to the pipeline call: len(user_input) in the log
\* line raises TypeError for an object without a length.
TextPrepare(input) ==
    IF input.type = "str" THEN "ok" ELSE "TypeError"

\* An input dispatch without the final else: whatever is not a path is taken
\* for an image.
ImagePrepareNoTypeCheck(input) ==
    IF input.type = "str"
    THEN (IF input.openable THEN "ok" ELSE "OpenError")
    ELSE "ok"

\* ImageModelRunner.run up to _preprocess: a str is opened as a path, a PIL
\* image is taken as it is, anything else is a TypeError.
ImagePrepare(input) ==
    IF input.type = "str"
    THEN (IF input.openable THEN "ok" ELSE "OpenError")
    ELSE IF input.type = "Image" THEN "ok" ELSE "TypeError"

\* A run() that always asks for the default number of labels.
CoerceTopKIgnoresOption(opt) == DefaultTopK

\* top_k = int(kwargs.get("top_k", 5)); -1 stands for int() raising ValueError.
CoerceTopK(opt) ==
    CASE opt.kind = "absent" -> DefaultTopK
      [] opt.kind = "int"    -> opt.val
      [] opt.kind = "numstr" -> opt.val
      [] OTHER               -> -1

Min(a, b) == IF a <= b THEN a ELSE b

\* The lengths of the list the external pipeline may return: the text
\* pipeline scores its one input; the image pipeline returns the top_k best
\* of the model's labels, min(top_k, number of labels) entries.
PipelineResults(r, top_k) ==
    IF r = "text" THEN {1} ELSE {Min(top_k, n) : n \in 1..MaxLabels}

\* New threads take the lowest free slot.
FreeSlot(t) ==
    /\ th[t].pc = "idle"
    /\ \A u \in Threads : u < t => th[u].pc # "idle"

\* A Run button that does nothing while a run() of its runner is in flight.
RunModelThreadedExclusive(r) ==
    /\ ui.pc = "idle"
    /\ \A u \in Threads : th[u].runner # r
    /\ \E t \in Threads :
          /\ FreeSlot(t)
          /\ th' = [th EXCEPT ![t] = [IdleThread EXCEPT !.pc = "gui", !.origin = "gui",
                                                        !.runner = r]]
    /\ UNCHANGED <<fields, initialized, pipe, last_runtime_s, loaded_ok, now, ui,
                   model_select, info>>

\* _run_model1_threaded / _run_model2_threaded: every click starts a thread.
RunModelThreaded(r) ==
    /\ ui.pc = "idle"
    /\ \E t \in Threads :
          /\ FreeSlot(t)
          /\ th' = [th EXCEPT ![t] = [IdleThread EXCEPT !.pc = "gui", !.origin = "gui",
                                                        !.runner = r]]
    /\ UNCHANGED <<fields, initialized, pipe, last_runtime_s, loaded_ok, now, ui,
                   model_select, info>>

\* _run_model1 / _run_model2 up to the call of run(): the handler reads the
\* input mode and the text box or the selected path (what the user has put
\* there: text typed into the box, or a path that opens or does not), warns
\* and ends unless the mode fits and the content is non-empty.
GuiRunModel(t) ==
    /\ th[t].pc = "gui"
    /\ \E mode \in {"text", "image"},
          content \in (IF th[t].runner = "text" THEN {EmptyIn, TextIn}
                                               ELSE {EmptyIn, TextIn, PathIn}) :
          IF (th[t].runner = "text" /\ mode # "text")
             \/ (th[t].runner = "image" /\ mode # "image")
             \/ content.len = 0
          THEN th' = [th EXCEPT ![t] = IdleThread]
          ELSE th' = [th EXCEPT ![t].pc = "call", ![t].input = content,
                                ![t].opt = IF th[t].runner = "image"
                                           THEN TopKInt(1) ELSE Absent]
    /\ UNCHANGED <<fields, initialized, pipe, last_runtime_s, loaded_ok, now, ui,
                   model_select, info>>

\* A direct caller of the runner API: run(user_input, **kwargs).  The text
\* runner ignores its keyword options.
DirectRun(r, input, opt) ==
    /\ r = "text" => opt = Absent
    /\ \E t \in Threads :
          /\ FreeSlot(t)
          /\ th' = [th EXCEPT ![t] = [IdleThread EXCEPT !.pc = "call", !.origin = "api",
                                        !.runner = r, !.input = input, !.opt = opt]]
    /\ UNCHANGED <<fields, initialized, pipe, last_runtime_s, loaded_ok, now, ui,
                   model_select, info>>

\* ensure_initialized's wrapper: raise RuntimeError, or call the timed method.
RunGuard(t) ==
    /\ th[t].pc = "call"
    /\ IF GuardRejects(th[t].runner)
       THEN th' = [th EXCEPT ![t].pc = "raised", ![t].exc = "NotInitialized"]
       ELSE th' = [th EXCEPT ![t].pc = "enter"]
    /\ UNCHANGED <<fields, initialized, pipe, last_runtime_s, loaded_ok, now, ui,
                   model_select, info>>

\* timeit's wrapper takes the start time; the body runs up to the pipeline
\* call: the input is checked (and opened), top_k is read and coerced.
RunEnter(t) ==
    /\ th[t].pc = "enter"
    /\ LET r    == th[t].runner
           prep == IF r = "text" THEN TextPrepare(th[t].input)
                                 ELSE ImagePrepare(th[t].input)
           k    == IF r = "text" THEN 0 ELSE CoerceTopK(th[t].opt)
       IN  th' = [th EXCEPT ![t].start = now,
                            ![t].pc    = IF prep = "ok" /\ k >= 0 THEN "invoke"
                                                                  ELSE "finally",
                            ![t].exc   = IF prep # "ok" THEN prep
                                         ELSE IF k < 0 THEN "ValueError" ELSE "none",
                            ![t].top_k = IF prep = "ok" /\ k >= 0 THEN k ELSE 0]
    /\ UNCHANGED <<fields, initialized, pipe, last_runtime_s, loaded_ok, now, ui,
                   model_select, info>>

\* A run() that calls the pipeline a second time when the first call fails.
RunInvokeRetries(t) ==
    /\ th[t].pc = "invoke"
    /\ LET r == th[t].runner
       IN  IF pipe[r] = 0
           THEN th' = [th EXCEPT ![t].pc = "finally", ![t].exc = "TypeError"]
           ELSE \/ \E n \in PipelineResults(r, th[t].top_k), c \in {1, 2} :
                      th' = [th EXCEPT ![t].pc = "result", ![t].pipe_ref = pipe[r],
                                       ![t].calls = th[t].calls + c,
                                       ![t].out = "ok", ![t].nres = n]
                \/ th' = [th EXCEPT ![t].pc = "finally", ![t].pipe_ref = pipe[r],
                                    ![t].calls = th[t].calls + 2,
                                    ![t].out = "PipelineError",
                                    ![t].exc = "PipelineError"]
    /\ UNCHANGED <<fields, initialized, pipe, last_runtime_s, loaded_ok, now, ui,
                   model_select, info>>

\* results = self._pipe(...): the reference is read and called once; the
\* pipeline returns a list or raises.  Calling an absent pipeline (None) is a
\* TypeError and invokes nothing.
RunInvoke(t) ==
    /\ th[t].pc = "invoke"
    /\ LET r == th[t].runner
       IN  IF pipe[r] = 0
           THEN th' = [th EXCEPT ![t].pc = "finally", ![t].exc = "TypeError"]
           ELSE \/ \E n \in PipelineResults(r, th[t].top_k) :
                      th' = [th EXCEPT ![t].pc = "result", ![t].pipe_ref = pipe[r],
                                       ![t].calls = th[t].calls + 1,
                                       ![t].out = "ok", ![t].nres = n]
                \/ th' = [th EXCEPT ![t].pc = "finally", ![t].pipe_ref = pipe[r],
                                    ![t].calls = th[t].calls + 1,
                                    ![t].out = "PipelineError",
                                    ![t].exc = "PipelineError"]
    /\ UNCHANGED <<fields, initialized, pipe, last_runtime_s, loaded_ok, now, ui,
                   model_select, info>>

\* The Result is built: "runtime_s": self.last_runtime_s is read here, inside
\* the timed body.
RunResult(t) ==
    /\ th[t].pc = "result"
    /\ th' = [th EXCEPT ![t].pc = "finally",
                        ![t].runtime_s = last_runtime_s[th[t].runner]]
    /\ UNCHANGED <<fields, initialized, pipe, last_runtime_s, loaded_ok, now, ui,
                   model_select, info>>

\* timeit's finally around run(): self.last_runtime_s = time.time() - start,
\* then the Result is returned or the pending exception re-raised.
RunFinally(t) ==
    /\ th[t].pc = "finally"
    /\ last_runtime_s' = [last_runtime_s EXCEPT
                            ![th[t].runner] = Elapsed(th[t].start, now)]
    /\ th' = [th EXCEPT ![t].pc = IF th[t].exc = "none" THEN "returned" ELSE "raised",
                        ![t].measured = Elapsed(th[t].start, now)]
    /\ UNCHANGED <<fields, initialized, pipe, loaded_ok, now, ui, model_select, info>>

\* The caller has the Result or the exception (_run_model1/2 show it); the
\* thread ends.
RunExit(t) ==
    /\ th[t].pc \in {"returned", "raised"}
    /\ th' = [th EXCEPT ![t] = IdleThread]
    /\ UNCHANGED <<fields, initialized, pipe, last_runtime_s, loaded_ok, now, ui,
                   model_select, info>>

\* No call is in flight: the UI thread is idle and no run() thread is alive.
Quiet == ui.pc = "idle" /\ \A t \in Threads : th[t].pc = "idle"

\* The steps of the calls in flight.
Step ==
    \/ LoadConstruct
    \/ LoadSetFlag
    \/ LoadFinally
    \/ LoadReturn
    \/ \E t \in Threads :
          \/ GuiRunModel(t)
          \/ RunGuard(t)
          \/ RunEnter(t)
          \/ RunInvoke(t)
          \/ RunResult(t)
          \/ RunFinally(t)
          \/ RunExit(t)

\* One caller at a time (the usage the runner's contract is written for): a
\* new load(), run() or meta() starts when the one before it has returned.
\* The calls are those of the presentation shell and those of a direct caller
\* of the runner API, with any input and any top_k option.
Next ==
    \/ Tick
    \/ Quiet /\ \E r \in Runners : LoadRunner(r)
    \/ Quiet /\ \E idx \in {0, 1} : UpdateSelectedModelInfo(idx)
    \/ Quiet /\ \E r \in Runners : RunModelThreaded(r)
    \/ Quiet /\ \E r \in Runners, input \in Inputs, opt \in Options :
                    DirectRun(r, input, opt)
    \/ Step

\* The presentation shell as it runs: the UI thread serves its events one at
\* a time (load() blocks it), and every click of a Run button starts a thread
\* at once, whatever is in flight.
ThreadsNext ==
    \/ now < ThreadsMaxTime /\ Tick
    \/ \E r \in Runners : LoadRunner(r)
    \/ \E r \in Runners : RunModelThreaded(r)
    \/ Step

Spec == Init /\ [][Next]_vars

SpecThreads == Init /\ [][ThreadsNext]_vars

\* ------------------------------------------------------------------ claims
InRun(t)    == th[t].pc \in {"enter", "invoke", "result", "finally", "returned", "raised"}
Finished(t) == th[t].pc \in {"returned", "raised"}

\* C1: on a runner (text or image) on which no load() has succeeded, however
\* many have failed, every run() ends with the uninitialized error, whatever
\* its input and options, and the call invokes no pipeline.
C1_RunBeforeLoadFails ==
    \A t \in Threads :
        (InRun(t) /\ ~loaded_ok[th[t].runner]) =>
            /\ th[t].pc = "raised"
            /\ th[t].exc = "NotInitialized"
            /\ th[t].calls = 0
            /\ th[t].pipe_ref = 0
            /\ th[t].out = "none"

\* A run() with a valid image path is rejected on the image runner after a
\* load() of it has failed (the failed load left its duration behind).
C1_Witness ==
    \E t \in Threads :
        /\ th[t].runner = "image" /\ th[t].input = PathIn
        /\ th[t].pc = "raised" /\ th[t].exc = "NotInitialized"
        /\ ~loaded_ok["image"] /\ last_runtime_s["image"] > 0

\* C2: the runtime_s of the Result a run() returns is the runtime measured
\* for that same run(): it equals last_runtime_s once the call has returned.
C2_RuntimeOfSameRun ==
    \A t \in Threads :
        th[t].pc = "returned" => th[t].runtime_s = last_runtime_s[th[t].runner]

\* C3 as stated: every run() that has come back to its caller, rejected by
\* the guard or not, has stored its own non-negative elapsed time in
\* last_runtime_s.
C3_EveryRunIsTimed ==
    \A t \in Threads :
        Finished(t) =>
            /\ th[t].measured >= 0
            /\ last_runtime_s[th[t].runner] = th[t].measured

\* C3 amended: a run() that passed the initialization guard, whether it
\* returned or raised, has stored its own non-negative elapsed time in
\* last_runtime_s; a run() the guard rejected has stored nothing.
C3_GuardedRunIsTimed ==
    \A t \in Threads :
        Finished(t) =>
            IF th[t].exc = "NotInitialized"
            THEN th[t].measured = -1
            ELSE /\ th[t].measured >= 0
                 /\ th[t].measured <= now - th[t].start
                 /\ last_runtime_s[th[t].runner] = th[t].measured

\* A run() whose pipeline call failed has come back with a positive elapsed
\* time stored.
C3_Witness ==
    \E t \in Threads :
        /\ th[t].pc = "raised" /\ th[t].exc = "PipelineError"
        /\ th[t].measured > 0
        /\ last_runtime_s[th[t].runner] = th[t].measured

\* C4: once a load() of a runner has succeeded its initialization flag is
\* true in every later state, whatever load(), run() or meta() follows: there
\* is no way back to UNLOADED.
C4_LoadedStaysLoaded ==
    \A r \in Runners : loaded_ok[r] => initialized[r]

\* A load() of a loaded runner has failed, and the runner is still loaded.
C4_Witness ==
    /\ ui.pc = "load_done" /\ ui.exc # "none" /\ ui.pre_init
    /\ loaded_ok[ui.which] /\ initialized[ui.which]

\* C5: a load() in which no pipeline was built raises to its caller, and a
\* load() that raises has left the initialization flag and the pipeline
\* reference as they were before the call, on an unloaded runner (no
\* pipeline) and on a loaded one (its earlier pipeline).
C5_FailedLoadChangesNothing ==
    ui.pc \in {"load_finally", "load_done"} =>
        /\ (pipe[ui.which] = ui.pre_pipe) <=> (ui.exc # "none")
        /\ ui.exc # "none" =>
              /\ initialized[ui.which] = ui.pre_init
              /\ pipe[ui.which] = ui.pre_pipe
              /\ ui.pre_init = (ui.pre_pipe # 0)

\* A load() of an unloaded runner has failed: the runner is unloaded, its
\* pipeline absent, and the time of the failed call is recorded.
C5_Witness ==
    /\ ui.pc = "load_done" /\ ui.exc = "PipelineError"
    /\ ~initialized[ui.which] /\ pipe[ui.which] = 0
    /\ last_runtime_s[ui.which] > 0

\* No step of a run() call assigns the initialization flag or the pipeline
\* reference.
RunStepKeepsLoadState ==
    (\E t \in Threads : th'[t] # th[t]) => UNCHANGED <<initialized, pipe>>

C6_TypeErrorBeforePipeline ==
    \A t \in Threads :
        (/\ InRun(t)
         /\ th[t].runner = "image"
         /\ th[t].input.type \notin {"str", "Image"}
         /\ th[t].exc # "NotInitialized"
         /\ th[t].pc # "enter") =>
            /\ th[t].pc \in {"finally", "raised"}
            /\ th[t].exc = "TypeError"
            /\ th[t].calls = 0 /\ th[t].pipe_ref = 0 /\ th[t].out = "none"
            /\ initialized["image"] /\ pipe["image"] # 0

\* C6: on a loaded image runner a run() whose input is neither a path string
\* nor an image object (an integer) fails with a type error, no pipeline is
\* invoked during the call, and the runner stays loaded with the pipeline it
\* had.
C6_BadImageInput ==
    []C6_TypeErrorBeforePipeline /\ [][RunStepKeepsLoadState]_vars

\* run(42) on the loaded image runner has raised the type error.
C6_Witness ==
    \E t \in Threads :
        /\ th[t].runner = "image" /\ th[t].input = IntIn
        /\ th[t].pc = "raised" /\ th[t].exc = "TypeError"
        /\ initialized["image"] /\ th[t].calls = 0

C7_MetaIsFactoryData ==
    /\ \A r \in Runners :
          /\ Meta(r).name = Factory(r).model_id
          /\ Meta(r).category = Factory(r).category
    /\ info.name = Factory(SelectedRunner(model_select)).model_id
    /\ info.category = Factory(SelectedRunner(model_select)).category

\* C7: meta() gives the factory's name and category in every state, unloaded
\* or loaded and after any load() and run(), and a call of it changes neither
\* the initialization flag, nor the pipeline reference, nor last_runtime_s.
C7_MetaIndependentOfLoad ==
    /\ []C7_MetaIsFactoryData
    /\ [][(\E idx \in {0, 1} : UpdateSelectedModelInfo(idx))
             => UNCHANGED runnerState]_vars

\* The info panel shows the image runner's meta(), taken after its load().
C7_Witness ==
    /\ model_select = 1 /\ info = Meta("image")
    /\ initialized["image"] /\ last_runtime_s["image"] > 0
    /\ Quiet

\* C8: a run() of the image runner that reaches the pipeline invokes it with
\* top_k = the integer value of the caller's option, 5 when there is none;
\* the Result then has exactly one entry for top_k = 1 and at most three for
\* top_k = 3 (the pipeline returning min(top_k, labels) entries).
C8_TopKLimitsResults ==
    \A t \in Threads :
        (th[t].runner = "image" /\ th[t].calls > 0) =>
            /\ th[t].top_k = IF th[t].opt.kind = "absent" THEN 5 ELSE th[t].opt.val
            /\ th[t].pc = "returned" =>
                  /\ th[t].top_k = 1 => th[t].nres = 1
                  /\ th[t].top_k = 3 => th[t].nres \in 1..3
                  /\ th[t].nres <= th[t].top_k

\* run(path, top_k=3) has returned three entries.
C8_Witness ==
    \E t \in Threads :
        /\ th[t].runner = "image" /\ th[t].pc = "returned"
        /\ th[t].opt = TopKInt(3) /\ th[t].nres = 3

\* The input and options of call t get it as far as the pipeline call.
AcceptableCall(t) ==
    IF th[t].runner = "text"
    THEN th[t].input.type = "str"
    ELSE /\ \/ th[t].input.type = "Image"
            \/ th[t].input.type = "str" /\ th[t].input.openable
         /\ th[t].opt.kind # "badstr"

\* C9: a run() on a loaded runner with acceptable input invokes the pipeline
\* exactly once; when that invocation fails, its error is what run() raises,
\* after the elapsed time is stored, and the runner is still loaded with the
\* pipeline that was invoked.
C9_OneInvocationNoRetry ==
    \A t \in Threads :
        /\ th[t].calls <= 1
        /\ (Finished(t) /\ th[t].exc # "NotInitialized" /\ AcceptableCall(t)) =>
              /\ th[t].calls = 1
              /\ initialized[th[t].runner]
              /\ pipe[th[t].runner] = th[t].pipe_ref
        /\ (Finished(t) /\ th[t].out = "PipelineError") =>
              /\ th[t].pc = "raised" /\ th[t].exc = th[t].out
              /\ th[t].measured >= 0
              /\ last_runtime_s[th[t].runner] = th[t].measured

\* The text pipeline failed on "I love this!": run() has raised its error
\* after one invocation.
C9_Witness ==
    \E t \in Threads :
        /\ th[t].runner = "text" /\ th[t].input = TextIn
        /\ th[t].pc = "raised" /\ th[t].out = "PipelineError"
        /\ th[t].calls = 1 /\ initialized["text"]

\* C10: no click of a Run button is refused because a run() is in flight (a
\* thread starts whenever the UI thread serves the click), and the guard of
\* run() lets a call through on the flag alone: two run() calls on one
\* runner can be in flight together.
C10_NoMutualExclusion ==
    /\ \A r \in Runners :
          (ui.pc = "idle" /\ \E t \in Threads : th[t].pc = "idle")
              => ENABLED RunModelThreaded(r)
    /\ \A t \in Threads :
          (th[t].pc = "call" /\ initialized[th[t].runner])
              => ENABLED (RunGuard(t) /\ th'[t].pc = "enter")

\* Two threads started from the same Run button are inside run() of the same
\* runner, both having called the same pipeline, one about to read
\* last_runtime_s and the other about to write it.
C10_TwoRunsInFlight ==
    \E t, u \in Threads :
        /\ t # u
        /\ th[t].origin = "gui" /\ th[u].origin = "gui"
        /\ th[t].runner = th[u].runner
        /\ th[t].pc = "result" /\ th[u].pc = "finally"
        /\ th[t].pipe_ref # 0 /\ th[t].pipe_ref = th[u].pipe_ref
        /\ th[t].pipe_ref = pipe[th[t].runner]

\* C11: in every state, those inside load() included, a set initialization
\* flag comes with a present pipeline reference (load() assigns the pipeline
\* before the flag), so with load() on the UI thread interleaved with run()
\* threads, a run() that passed the guard finds a pipeline to call and never
\* calls an absent one (the shell passes strings, so a TypeError could only
\* come from calling None): a call that got to the pipeline called a real one.
C11_FlagImpliesPipeline ==
    /\ \A r \in Runners : initialized[r] => pipe[r] # 0
    /\ \A t \in Threads :
          /\ th[t].pc = "invoke" => pipe[th[t].runner] # 0
          /\ th[t].pc \in {"result", "finally", "returned", "raised"} =>
                /\ th[t].exc # "TypeError"
                /\ th[t].exc \in {"none", "PipelineError"} =>
                      th[t].calls = 1 /\ th[t].pipe_ref # 0

\* The first load() of a runner is still in flight on the UI thread (flag
\* set, timing not yet stored) while a run() thread of that runner has passed
\* the guard and is about to call the pipeline.
C11_Witness ==
    /\ ui.pc = "load_finally" /\ ui.exc = "none" /\ ~ui.pre_init
    /\ \E t \in Threads :
          /\ th[t].runner = ui.which /\ th[t].origin = "gui"
          /\ th[t].pc = "invoke"
          /\ pipe[ui.which] # 0
====
